---- MODULE Spec2Model ----
(***************************************************************************)
(* A model of the two artist tools of the repository:                      *)
(*                                                                         *)
(*   fix_flipped_normals.py  - the "Normal Fixer" button handler, which    *)
(*       walks the selection, classifies every face of every mesh by the   *)
(*       sign of (unit normal . face centre) and hands the flagged faces   *)
(*       to cmds.polyNormal;                                               *)
(*   camo_texture_tool.py    - TexturePreviewWidget, which recolours a     *)
(*       texture into three luminance bands.                               *)
(*                                                                         *)
(* Arithmetic.  MVector holds doubles.  The model keeps the values exact:  *)
(* a vector divided by a count is the pair (numerator vector, count), a    *)
(* normalised vector is the pair (vector, squared length), and their dot   *)
(* product is a numerator over a positive irrational denominator, so its   *)
(* sign is the sign of the numerator.  Division of the zero vector by a    *)
(* zero count gives 0/0 in every component, which IEEE-754 doubles (the    *)
(* C++ MVector behind the om binding) evaluate to NaN without raising;     *)
(* every ordered comparison with NaN is false.                             *)
(***************************************************************************)
EXTENDS Integers, Sequences, FiniteSets, TLC

VARIABLES
    points,          \* mesh -> [0..k-1 -> position]     (MFnMesh.getPoints)
    polygonVertices, \* mesh -> [0..n-1 -> vertex list]  (MFnMesh.getPolygonVertices)
    polygonNormal,   \* mesh -> [0..n-1 -> normal]       (MFnMesh.getPolygonNormal)
    selection,       \* what cmds.ls(selection=True) returns
    pc,              \* position of the button handler
    run,             \* number of times the button has been pressed
    obj,             \* 0-based index of the for-loop over the selection
    mesh,            \* the local variable `mesh` (Unbound before its first assignment)
    face_id,         \* loop variable of the face loop
    flipped_faces,   \* the list built by the face loop
    normalFixerLog,  \* content of the scrollField 'normalFixerLog'
    polyNormalCalls, \* history: every cmds.polyNormal invocation
    passes,          \* history: (mesh, geometry, flagged list) of every finished face loop
    original_pixmap, \* TexturePreviewWidget.original_pixmap
    colors,          \* TexturePreviewWidget.colors
    pixmap           \* what the label shows (QLabel.setPixmap / setText)

meshVars == <<points, polygonVertices, polygonNormal>>
fixVars  == <<selection, pc, run, obj, mesh, face_id, flipped_faces,
              normalFixerLog, polyNormalCalls, passes>>
camoVars == <<original_pixmap, colors, pixmap>>
vars     == <<points, polygonVertices, polygonNormal, selection, pc, run, obj,
              mesh, face_id, flipped_faces, normalFixerLog, polyNormalCalls,
              passes, original_pixmap, colors, pixmap>>

----------------------------------------------------------------------------
(* Bounds of the model.                                                    *)

MaxSel   == 2   \* longest selection
MaxFaces == 2   \* most faces of the mesh whose geometry is varied
MaxRuns  == 2   \* presses of the "Fix Flipped Normals" button

----------------------------------------------------------------------------
(* The scene.                                                              *)

Unbound == "<unbound>"

\* Selectable nodes: a transform over the mesh M1, the mesh node M2 itself,
\* a transform without shapes (an empty group), a transform over a camera.
Nodes  == {"T1", "M2", "T0", "TCam"}
Meshes == {"M1", "M2"}

objectType(n) ==
    CASE n \in {"T1", "T0", "TCam"} -> "transform"
      [] n \in Meshes               -> "mesh"
      [] OTHER                      -> "camera"

listRelatives(n) ==
    CASE n = "T1"   -> <<"M1">>
      [] n = "TCam" -> <<"CamShape">>
      [] OTHER      -> <<>>

\* Vertex table shared by the meshes (0-based, as MPointArray is).
VertexTable ==
    [i \in 0..6 |->
        CASE i = 0 -> <<1, 0, 0>>
          [] i = 1 -> <<0, 1, 0>>
          [] i = 2 -> <<0, 0, 1>>
          [] i = 3 -> <<2, 0, 0>>
          [] i = 4 -> <<2, 2, 0>>
          [] i = 5 -> <<0, 2, 0>>
          [] i = 6 -> <<0, 0, 0>>]

Triangle == <<0, 1, 2>>
Quad     == <<3, 4, 5, 6>>
VertexLists == {<< >>, Triangle, Quad}
Normals     == {<<0, 0, 0>>, <<-1, -1, -1>>, <<0, 0, 1>>, <<1, 1, 1>>}

Range(s) == {s[i] : i \in 1..Len(s)}

\* The sequences over S of length at most n without repetition: cmds.ls
\* names every selected node once.
RECURSIVE DistinctSeqs(_, _)
DistinctSeqs(S, n) ==
    IF n = 0 THEN {<< >>}
    ELSE LET shorter == DistinctSeqs(S, n - 1)
         IN  shorter \cup
             UNION {{Append(s, x) : x \in S \ Range(s)} :
                        s \in {t \in shorter : Len(t) = n - 1}}

\* The geometries a mesh of at most n faces can have.
Geometries(n) ==
    UNION {[0..(k - 1) -> [verts : VertexLists, normal : Normals]] : k \in 0..n}

\* M2 is the two-triangle batch: face 0 points at the origin, face 1 away.
BatchVertices == [i \in 0..1 |-> Triangle]
BatchNormals  == [i \in 0..1 |-> IF i = 0 THEN <<-1, -1, -1>> ELSE <<1, 1, 1>>]

----------------------------------------------------------------------------
(* MVector arithmetic.                                                     *)

Zero == <<0, 0, 0>>

VecAdd(a, b) == <<a[1] + b[1], a[2] + b[2], a[3] + b[3]>>
VecNeg(a)    == <<0 - a[1], 0 - a[2], 0 - a[3]>>
Dot(a, b)    == a[1] * b[1] + a[2] * b[2] + a[3] * b[3]

\* MVector / scalar: the vector num / den.  den = 0 happens only for the
\* zero vector (no vertex was added), and 0/0 is NaN.
VecDiv(v, k) == [num |-> v, den |-> k]
IsNaN(c)     == c.den = 0

\* MVector.length() > 0
LengthPositive(v) == Dot(v, v) > 0

\* MVector.normal(): the vector dir / sqrt(len2)
UnitNormal(v) == [dir |-> v, len2 |-> Dot(v, v)]

\* MVector * MVector (dot product) of a unit normal with a centre: the scalar
\* num / (den * sqrt(len2)), NaN when the centre is.
UnitDot(n, c) == [num |-> Dot(n.dir, c.num), den |-> c.den, len2 |-> n.len2]

\* Variant: the test written `<= 0`.
LessThanZero_orEqual(d) == ~IsNaN(d) /\ d.num <= 0

\* Variant: the test written `not (d >= 0)`, which NaN passes.
LessThanZero_nanPasses(d) == IsNaN(d) \/ d.num < 0

\* scalar < 0.  den * sqrt(len2) is positive, so the numerator decides;
\* a comparison with NaN is false.
LessThanZero(d) == ~IsNaN(d) /\ d.num < 0

\* Lines 54-56: the sum of the positions of the listed vertices.
RECURSIVE SumPoints(_, _, _)
SumPoints(vertices, vertex_list, i) ==
    IF i > Len(vertex_list) THEN Zero
    ELSE VecAdd(vertices[vertex_list[i]], SumPoints(vertices, vertex_list, i + 1))

\* Lines 46-57: the face centre.
Center(vertices, vertex_list) ==
    VecDiv(SumPoints(vertices, vertex_list, 1), Len(vertex_list))

\* Variant: a face without a usable normal is sent to the repair as well.
IsFlipped_flagDegenerate(normal, center) ==
    \/ ~LengthPositive(normal)
    \/ LessThanZero(UnitDot(UnitNormal(normal), center))

\* Lines 60-62: whether the face is appended to flipped_faces.
IsFlipped(normal, center) ==
    /\ LengthPositive(normal)
    /\ LessThanZero(UnitDot(UnitNormal(normal), center))

----------------------------------------------------------------------------
(* fix_flipped_normals.py                                                  *)

numPolygons(m) == Cardinality(DOMAIN polygonNormal[m])

\* Variant: a normalMode that leaves the named faces as they are.
polyNormal_noReverse(normals, m, faces) == normals

\* cmds.polyNormal(face_names, normalMode=0, ...): mode 0 reverses the normal
\* of each named face; positions and topology stay.
polyNormal(normals, m, faces) ==
    [normals EXCEPT ![m] =
        [i \in DOMAIN @ |-> IF i \in Range(faces) THEN VecNeg(@[i]) ELSE @[i]]]

\* Variant: the face ids taken as 1-based.
face_names_oneBased(m, faces) ==
    [mesh |-> m, faces |-> [i \in 1..Len(faces) |-> faces[i] + 1]]

\* Line 67: the component names "<mesh>.f[<face>]" of the flagged faces.
face_names(m, faces) == [mesh |-> m, faces |-> faces]

\* log_message: append a line to the scroll field.
log_message(log, message, count, o) ==
    Append(log, [msg |-> message, count |-> count, obj |-> o])

\* Lines 17-22: the value of `mesh` at line 24 for the object o, given the
\* value the variable had before (a transform without shapes assigns nothing).
ResolvedMesh(o, before) ==
    IF objectType(o) = "transform"
    THEN IF listRelatives(o) # << >> THEN listRelatives(o)[1] ELSE before
    ELSE o

\* Variant: the list is created once per press, not once per mesh.
BeginFaceLoop_keepList(m) ==
    /\ mesh' = m
    /\ flipped_faces' = flipped_faces
    /\ face_id' = 0
    /\ pc' = "face_loop"

\* Lines 27-38: bind the mesh and start its face loop with an empty list.
BeginFaceLoop(m) ==
    /\ mesh' = m
    /\ flipped_faces' = << >>
    /\ face_id' = 0
    /\ pc' = "face_loop"

FixInit ==
    /\ points = [m \in Meshes |-> VertexTable]
    /\ \E g \in Geometries(MaxFaces) :
          /\ polygonVertices =
                [m \in Meshes |-> IF m = "M1" THEN [i \in DOMAIN g |-> g[i].verts]
                                              ELSE BatchVertices]
          /\ polygonNormal =
                [m \in Meshes |-> IF m = "M1" THEN [i \in DOMAIN g |-> g[i].normal]
                                              ELSE BatchNormals]
    /\ selection \in DistinctSeqs(Nodes, MaxSel)
    /\ pc = "idle"
    /\ run = 0
    /\ obj = 0
    /\ mesh = Unbound
    /\ face_id = 0
    /\ flipped_faces = << >>
    /\ normalFixerLog = <<[msg |-> "Ready to process...", count |-> 0, obj |-> ""]>>
    /\ polyNormalCalls = << >>
    /\ passes = {}

\* Lines 4-13: the button is pressed; an empty selection ends the handler.
Press ==
    /\ pc \in {"idle", "done", "error"}
    /\ run < MaxRuns
    /\ run' = run + 1
    /\ obj' = 0
    /\ mesh' = Unbound
    /\ flipped_faces' = << >>
    /\ face_id' = 0
    /\ IF selection = << >>
       THEN /\ normalFixerLog' = log_message(<< >>, "Please select a mesh object", 0, "")
            /\ pc' = "done"
       ELSE /\ normalFixerLog' = << >>
            /\ pc' = "for_obj"
    /\ UNCHANGED <<meshVars, selection, polyNormalCalls, passes, camoVars>>

\* Line 15: the selection is exhausted and the handler returns.
LoopExit ==
    /\ pc = "for_obj"
    /\ obj = Len(selection)
    /\ pc' = "done"
    /\ UNCHANGED <<meshVars, selection, run, obj, mesh, face_id, flipped_faces,
                   normalFixerLog, polyNormalCalls, passes, camoVars>>

\* Line 24 reads `mesh` before any assignment: UnboundLocalError leaves the
\* handler.
ReadUnbound ==
    /\ pc = "for_obj"
    /\ obj < Len(selection)
    /\ ResolvedMesh(selection[obj + 1], mesh) = Unbound
    /\ pc' = "error"
    /\ UNCHANGED <<meshVars, selection, run, obj, mesh, face_id, flipped_faces,
                   normalFixerLog, polyNormalCalls, passes, camoVars>>

\* Lines 24-25: `mesh` is not a mesh; continue with the next object.
SkipNonMesh ==
    /\ pc = "for_obj"
    /\ obj < Len(selection)
    /\ LET m == ResolvedMesh(selection[obj + 1], mesh)
       IN  /\ m # Unbound
           /\ objectType(m) # "mesh"
           /\ mesh' = m
    /\ obj' = obj + 1
    /\ UNCHANGED <<meshVars, selection, pc, run, face_id, flipped_faces,
                   normalFixerLog, polyNormalCalls, passes, camoVars>>

\* Lines 17-38: `mesh` is a mesh; its faces are inspected.
InspectMesh ==
    /\ pc = "for_obj"
    /\ obj < Len(selection)
    /\ LET m == ResolvedMesh(selection[obj + 1], mesh)
       IN  /\ m # Unbound
           /\ objectType(m) = "mesh"
           /\ BeginFaceLoop(m)
    /\ UNCHANGED <<meshVars, selection, run, obj, normalFixerLog,
                   polyNormalCalls, passes, camoVars>>

\* Variant: a flagged face is reversed at once, inside the face loop.
ClassifyFace_repairInLoop ==
    /\ pc = "face_loop"
    /\ face_id < numPolygons(mesh)
    /\ LET normal == polygonNormal[mesh][face_id]
           center == Center(points[mesh], polygonVertices[mesh][face_id])
       IN  IF IsFlipped(normal, center)
           THEN /\ flipped_faces' = Append(flipped_faces, face_id)
                /\ polygonNormal' = polyNormal(polygonNormal, mesh, <<face_id>>)
           ELSE UNCHANGED <<flipped_faces, polygonNormal>>
    /\ face_id' = face_id + 1
    /\ UNCHANGED <<points, polygonVertices, selection, pc, run, obj, mesh,
                   normalFixerLog, polyNormalCalls, passes, camoVars>>

\* Lines 41-63: one iteration of the face loop.
ClassifyFace ==
    /\ pc = "face_loop"
    /\ face_id < numPolygons(mesh)
    /\ LET normal == polygonNormal[mesh][face_id]
           center == Center(points[mesh], polygonVertices[mesh][face_id])
       IN  flipped_faces' = IF IsFlipped(normal, center)
                            THEN Append(flipped_faces, face_id)
                            ELSE flipped_faces
    /\ face_id' = face_id + 1
    /\ UNCHANGED <<meshVars, selection, pc, run, obj, mesh, normalFixerLog,
                   polyNormalCalls, passes, camoVars>>

\* Lines 65-71: after the face loop, repair the flagged faces and report.
FixFlippedFaces ==
    /\ pc = "face_loop"
    /\ face_id = numPolygons(mesh)
    /\ passes' = passes \cup
            {[mesh |-> mesh, vertices |-> points[mesh],
              faces |-> polygonVertices[mesh],
              normals |-> polygonNormal[mesh], flagged |-> flipped_faces]}
    /\ IF flipped_faces # << >>
       THEN /\ LET names == face_names(mesh, flipped_faces)
               IN  /\ polygonNormal' =
                         polyNormal(polygonNormal, names.mesh, names.faces)
                   /\ polyNormalCalls' =
                         Append(polyNormalCalls,
                                [run |-> run, obj |-> obj, mesh |-> names.mesh,
                                 faces |-> names.faces])
            /\ normalFixerLog' =
                  log_message(normalFixerLog, "Fixed flipped normals",
                              Len(flipped_faces), selection[obj + 1])
       ELSE /\ normalFixerLog' =
                  log_message(normalFixerLog, "No flipped normals found", 0,
                              selection[obj + 1])
            /\ UNCHANGED <<polygonNormal, polyNormalCalls>>
    /\ obj' = obj + 1
    /\ pc' = "for_obj"
    /\ UNCHANGED <<points, polygonVertices, selection, run, mesh, face_id,
                   flipped_faces, camoVars>>

----------------------------------------------------------------------------
(* camo_texture_tool.py : TexturePreviewWidget                             *)

WhiteThreshold == 178
GreyThreshold  == 76
PreviewSize    == 200

Areas == {"white", "grey", "black"}

\* A QRgb is <<alpha, red, green, blue>>.
Opaque(r, g, b) == <<255, r, g, b>>

\* Pixels a texture is made of: greys on both sides of each threshold, a
\* saturated green (gray 127) and a fully transparent pixel.
Pixels ==
    {Opaque(76, 76, 76), Opaque(77, 77, 77), Opaque(178, 178, 178),
     Opaque(179, 179, 179), Opaque(0, 255, 0), <<0, 0, 0, 0>>}

\* QColor values the colour dialog can return (red, green, blue).
PickableColors ==
    {<<255, 255, 255>>, <<128, 128, 128>>, <<0, 0, 0>>, <<255, 0, 0>>}

ImageSizes == {<<1, 1>>, <<2, 1>>, <<1, 2>>}

NullImage == [w |-> 0, h |-> 0, px |-> << >>]

Images ==
    UNION {[w : {sz[1]}, h : {sz[2]},
            px : [(0..(sz[1] - 1)) \X (0..(sz[2] - 1)) -> Pixels]] :
               sz \in ImageSizes}

\* QtGui.qGray(rgb): (r*11 + g*16 + b*5) / 32, alpha ignored.
qGray(pixel) == (pixel[2] * 11 + pixel[3] * 16 + pixel[4] * 5) \div 32

\* QColor.rgb(): the colour as an opaque QRgb.
rgb(color) == Opaque(color[1], color[2], color[3])

\* Lines 49-54: the value written by setPixel for a pixel of the working copy.
BandPixel(pixel, cols) ==
    IF qGray(pixel) > WhiteThreshold THEN rgb(cols["white"])
    ELSE IF qGray(pixel) > GreyThreshold THEN rgb(cols["grey"])
    ELSE rgb(cols["black"])

\* Lines 41-54: the working copy after the pixel loop.
Recolored(image, cols) ==
    [image EXCEPT !.px = [p \in DOMAIN image.px |-> BandPixel(image.px[p], cols)]]

\* Lines 57-62: QPixmap.scaled(200, 200, KeepAspectRatio, SmoothTransformation).
\* The target size is QSize.scaled's; the content is `image` resampled to it.
Scaled(image) ==
    LET rw == (PreviewSize * image.w) \div image.h
    IN  [text   |-> "",
         image  |-> image,
         width  |-> IF rw <= PreviewSize THEN rw ELSE PreviewSize,
         height |-> IF rw <= PreviewSize THEN PreviewSize
                    ELSE (PreviewSize * image.h) \div image.w]

\* QLabel.setText: the label shows the text and no pixmap.
TextLabel == [text |-> "No texture loaded", image |-> NullImage, width |-> 0, height |-> 0]
\* QLabel.setPixmap of a null pixmap: the label shows nothing.
EmptyLabel == [text |-> "", image |-> NullImage, width |-> 0, height |-> 0]

NoPixmap   == [set |-> FALSE, image |-> NullImage]
Loaded(im) == [set |-> TRUE, image |-> im]

\* Variant: the pixel loop runs over the image already shown.
update_preview_inPlace(original, cols, shown) ==
    IF ~original.set THEN {shown}
    ELSE IF original.image = NullImage THEN {shown, EmptyLabel}
    ELSE IF shown.image # NullImage /\ shown.image.w = original.image.w
                                    /\ shown.image.h = original.image.h
         THEN {Scaled(Recolored(shown.image, cols))}
         ELSE {Scaled(Recolored(original.image, cols))}

\* Lines 36-63: what the label shows after update_preview.  For a null
\* QPixmap (an unreadable file) the truth value tested at line 37 is the
\* binding's: either the method returns early or it sets a null pixmap.
update_preview(original, cols, shown) ==
    IF ~original.set THEN {shown}
    ELSE IF original.image = NullImage THEN {shown, EmptyLabel}
    ELSE {Scaled(Recolored(original.image, cols))}

CamoStart ==
    /\ original_pixmap = NoPixmap
    /\ colors = [a \in Areas |->
                    CASE a = "white" -> <<255, 255, 255>>
                      [] a = "grey"  -> <<128, 128, 128>>
                      [] a = "black" -> <<0, 0, 0>>]
    /\ pixmap = TextLabel

\* Lines 28-31: no path, or the path does not exist.
load_missing ==
    /\ original_pixmap' = NoPixmap
    /\ pixmap' = TextLabel
    /\ UNCHANGED <<colors, meshVars, fixVars>>

\* Lines 33-34: the file exists; it decodes to an image or to a null pixmap.
load_texture ==
    \E im \in Images \cup {NullImage} :
        /\ original_pixmap' = Loaded(im)
        /\ pixmap' \in update_preview(Loaded(im), colors, pixmap)
        /\ UNCHANGED <<colors, meshVars, fixVars>>

\* Lines 65-67.
update_color ==
    \E area \in Areas, color \in PickableColors :
        /\ colors' = [colors EXCEPT ![area] = color]
        /\ pixmap' \in update_preview(original_pixmap, colors', pixmap)
        /\ UNCHANGED <<original_pixmap, meshVars, fixVars>>

----------------------------------------------------------------------------
(* Specifications.                                                         *)

\* The normal fixer over every selection and every geometry of M1.
Init == FixInit /\ CamoStart

Next ==
    \/ Press
    \/ LoopExit
    \/ ReadUnbound
    \/ SkipNonMesh
    \/ InspectMesh
    \/ ClassifyFace
    \/ FixFlippedFaces

Spec == Init /\ [][Next]_vars

\* The texture preview; the normal fixer stays idle on an empty scene.
CamoInit ==
    /\ CamoStart
    /\ points = [m \in Meshes |-> VertexTable]
    /\ polygonVertices = [m \in Meshes |-> BatchVertices]
    /\ polygonNormal = [m \in Meshes |-> BatchNormals]
    /\ selection = << >>
    /\ pc = "idle"
    /\ run = 0
    /\ obj = 0
    /\ mesh = Unbound
    /\ face_id = 0
    /\ flipped_faces = << >>
    /\ normalFixerLog = <<[msg |-> "Ready to process...", count |-> 0, obj |-> ""]>>
    /\ polyNormalCalls = << >>
    /\ passes = {}

CamoNext ==
    \/ load_missing
    \/ load_texture
    \/ update_color

CamoSpec == CamoInit /\ [][CamoNext]_vars

----------------------------------------------------------------------------
(* Properties of fix_flipped_normals.py, checked under Spec.               *)

\* The sign of (unit normal . average position) for a face with k > 0
\* vertices and a non-zero normal n: the dot product is
\* (n . sum of positions) / (k * |n|), and k * |n| > 0.
PointsInward(vertices, vertex_list, normal) ==
    Dot(normal, SumPoints(vertices, vertex_list, 1)) < 0

\* The faces the contract flags, for a geometry given as three values.
FlaggedOf(vertices, faces, normals) ==
    {i \in DOMAIN normals :
        /\ faces[i] # << >>
        /\ normals[i] # Zero
        /\ PointsInward(vertices, faces[i], normals[i])}

ExpectedFlagged(m) == FlaggedOf(points[m], polygonVertices[m], polygonNormal[m])

\* The mesh shape that belongs to a selected object, "none" if it has none.
OwnMesh(o) ==
    IF objectType(o) = "mesh" THEN o
    ELSE IF /\ objectType(o) = "transform"
            /\ listRelatives(o) # << >>
            /\ objectType(listRelatives(o)[1]) = "mesh"
         THEN listRelatives(o)[1]
         ELSE "none"

InFaceLoop   == pc = "face_loop" /\ face_id < numPolygons(mesh)
FaceLoopDone == pc = "face_loop" /\ face_id = numPolygons(mesh)

\* C1: at every point of the face loop the flagged list holds exactly the
\* faces already visited that have a non-empty vertex list, a non-zero normal
\* and a negative dot product of unit normal and vertex average; in particular
\* the whole list is FlaggedOf the mesh when the loop ends, a zero dot product
\* is not flagged, and a face's decision is independent of the other faces.
C1_FlaggedExactly ==
    pc = "face_loop" =>
        /\ Range(flipped_faces) = {i \in ExpectedFlagged(mesh) : i < face_id}
        /\ Len(flipped_faces) = Cardinality(Range(flipped_faces))

\* A finished loop over M1 with one flagged face and one face whose dot
\* product is exactly zero (the quad with normal (0,0,1)), left unflagged.
C1_Witness ==
    /\ FaceLoopDone
    /\ mesh = "M1"
    /\ flipped_faces = <<0>>
    /\ numPolygons("M1") = 2
    /\ polygonVertices["M1"][1] = Quad
    /\ polygonNormal["M1"][1] = <<0, 0, 1>>

\* C2: the loop step for a face with an empty vertex list flags nothing,
\* raises nothing and moves on to the next face; no list handed on at the end
\* of the loop contains such a face.
C2_EmptyFaceSkipped ==
    [][/\ (InFaceLoop /\ polygonVertices[mesh][face_id] = << >>) =>
              /\ flipped_faces' = flipped_faces
              /\ face_id' = face_id + 1
              /\ pc' = "face_loop"
       /\ (FaceLoopDone /\ pc' # pc) =>
              /\ pc' = "for_obj"
              /\ \A i \in Range(flipped_faces) : polygonVertices[mesh][i] # << >>
      ]_vars

\* The loop is over; face 0 had no vertices and an inward normal and was
\* passed over, face 1 after it was still classified and flagged.
C2_Witness ==
    /\ FaceLoopDone
    /\ mesh = "M1"
    /\ numPolygons("M1") = 2
    /\ polygonVertices["M1"][0] = << >>
    /\ polygonNormal["M1"][0] = <<-1, -1, -1>>
    /\ flipped_faces = <<1>>

\* C3: the loop step for a face whose normal is (0,0,0) flags nothing and
\* raises nothing, whatever the face's vertices; the flagged list never holds
\* a face with a zero normal.
C3_ZeroNormalSkipped ==
    [][/\ (InFaceLoop /\ polygonNormal[mesh][face_id] = Zero) =>
              /\ flipped_faces' = flipped_faces
              /\ face_id' = face_id + 1
              /\ pc' = "face_loop"
       /\ pc' = "face_loop" =>
              \A i \in Range(flipped_faces') : polygonNormal'[mesh'][i] # Zero
      ]_vars

\* The loop is over; face 0 is a triangle with a zero normal, unflagged, and
\* face 1 after it was flagged.
C3_Witness ==
    /\ FaceLoopDone
    /\ mesh = "M1"
    /\ numPolygons("M1") = 2
    /\ polygonVertices["M1"][0] = Triangle
    /\ polygonNormal["M1"][0] = Zero
    /\ flipped_faces = <<1>>

NoMeshSelected == \A i \in 1..Len(selection) : OwnMesh(selection[i]) = "none"

Reported(message) ==
    \E i \in 1..Len(normalFixerLog) : normalFixerLog[i].msg = message

\* C4: when the handler has returned and the selection is empty or holds no
\* mesh, the log carries the "nothing to process" line and no repair was
\* invoked.
C4_NothingToProcessReported ==
    (pc = "done" /\ NoMeshSelected) =>
        /\ Reported("Please select a mesh object")
        /\ polyNormalCalls = << >>

\* C5: cmds.polyNormal is invoked only when the face loop of the current mesh
\* is over, once for that pass over the mesh, on that mesh, with exactly the
\* flagged faces, which are then not empty; and normals change in no other way.
C5_RepairExactlyFlagged ==
    [][/\ polyNormalCalls' # polyNormalCalls =>
              /\ FaceLoopDone
              /\ flipped_faces # << >>
              /\ Range(flipped_faces) = ExpectedFlagged(mesh)
              /\ polyNormalCalls' =
                    Append(polyNormalCalls,
                           [run |-> run, obj |-> obj, mesh |-> mesh,
                            faces |-> flipped_faces])
              /\ \A i \in 1..Len(polyNormalCalls) :
                    ~(polyNormalCalls[i].run = run /\ polyNormalCalls[i].obj = obj)
              /\ pc' = "for_obj"
       /\ (FaceLoopDone /\ flipped_faces = << >>) =>
              polyNormalCalls' = polyNormalCalls
       /\ polygonNormal' # polygonNormal => polyNormalCalls' # polyNormalCalls
      ]_vars

\* Both meshes were repaired in one press, M1 on its two flagged faces.
C5_Witness ==
    /\ pc = "done"
    /\ run = 1
    /\ Len(polyNormalCalls) = 2
    /\ polyNormalCalls[1] = [run |-> 1, obj |-> 0, mesh |-> "M1", faces |-> <<0, 1>>]
    /\ polyNormalCalls[2].mesh = "M2"

\* C6: a step of the face loop leaves the vertex positions, the face vertex
\* lists and the face normals as they are, and the list a finished loop
\* produced is FlaggedOf the geometry it ran on.
C6_ClassificationPure ==
    [][/\ InFaceLoop => UNCHANGED <<points, polygonVertices, polygonNormal>>
       /\ \A p \in passes' :
              Range(p.flagged) = FlaggedOf(p.vertices, p.faces, p.normals)
      ]_vars

\* In the middle of the loop over M1, after a face has been flagged.
C6_Witness ==
    /\ InFaceLoop
    /\ mesh = "M1"
    /\ face_id = 1
    /\ flipped_faces = <<0>>

\* C7: two finished face loops that ran on the same vertices, faces and
\* normals produced the same flagged list.
C7_SameInputSameFlagged ==
    \A p, q \in passes :
        (p.vertices = q.vertices /\ p.faces = q.faces /\ p.normals = q.normals)
            => p.flagged = q.flagged

\* M1, a mesh of two faces, was classified in two presses and repaired in
\* neither, so both face loops ran on the same geometry.
C7_Witness ==
    /\ selection = <<"T1">>
    /\ run = 2
    /\ pc = "done"
    /\ polyNormalCalls = << >>
    /\ numPolygons("M1") = 2
    /\ Cardinality(passes) = 1

\* C9: the handler raises no error, and the mesh whose faces it inspects for
\* an object of the selection is that object's own mesh shape.
C9_InspectsOwnMesh ==
    /\ pc # "error"
    /\ pc = "face_loop" => mesh = OwnMesh(selection[obj + 1])

\* C10: with polyNormal reversing the faces it is given, a press that follows
\* another on the same selection flags no face and invokes no repair, and
\* every mesh a press has inspected is left without flagged faces.
C10_SecondRunClean ==
    /\ run >= 2 =>
          /\ flipped_faces = << >>
          /\ \A i \in 1..Len(polyNormalCalls) : polyNormalCalls[i].run = 1
    /\ \A p \in passes : ExpectedFlagged(p.mesh) = {}

\* The second press has finished the loop over M1, which the first press
\* repaired on two faces, and has flagged nothing.
C10_Witness ==
    /\ run = 2
    /\ FaceLoopDone
    /\ mesh = "M1"
    /\ numPolygons("M1") = 2
    /\ flipped_faces = << >>
    /\ Len(polyNormalCalls) >= 1
    /\ polyNormalCalls[1] = [run |-> 1, obj |-> 0, mesh |-> "M1", faces |-> <<0, 1>>]

----------------------------------------------------------------------------
(* Properties of TexturePreviewWidget, checked under CamoSpec.             *)

TextureLoaded == original_pixmap.set /\ original_pixmap.image # NullImage

====
